---------------------------- MODULE Spec2Model ----------------------------
(***************************************************************************)
(* Model of the combinational-logic simulator: the evaluator evalExpr and  *)
(* concatValues, the scheduler topoSort / sortWires and the driver         *)
(* simulateCircuit of src/src/circuit.ts, and the translator               *)
(* parseVerilogModule of src/src/parser.ts.                                *)
(*                                                                         *)
(* A Value {width, value} is the record [kind |-> "val", width, value].    *)
(* JavaScript's `undefined` is Undef and a thrown exception is Err(msg);   *)
(* both are results an evaluation can end with, so that "returns           *)
(* undefined" and "throws" stay distinguishable from "returns a Value".    *)
(* A literal's text is a sequence of one-character strings.                *)
(***************************************************************************)
EXTENDS Integers, Sequences, FiniteSets, TLC

VARIABLES
  pc,          \* position of the running call
  expr,        \* evalExpr harness: the Expr argument
  env,         \* the Env: evalExpr's argument, simulateCircuit's local
  ret,         \* what the finished call returned or threw
  mod,         \* the Module handed to sortWires and then to simulateCircuit
  arg,         \* the wire list as it was when sortWires was called
  nodeByName,  \* topoSort: Map name -> Wire, in insertion order
  indegree,    \* topoSort: Map name -> number
  revAdj,      \* topoSort: Map name -> string[]
  queue,       \* topoSort: FIFO of names
  sorted,      \* topoSort: emitted wires
  idx,         \* index of the next element of the loop in progress
  inputs,      \* simulateCircuit: the supplied inputs
  tree         \* parseVerilogModule: the syntax tree parseVerilog returned

vars == <<pc, expr, env, ret, mod, arg, nodeByName, indegree, revAdj, queue,
          sorted, idx, inputs, tree>>

-----------------------------------------------------------------------------
(* Results *)

Val(w, v) == [kind |-> "val", width |-> w, value |-> v]

Undef == [kind |-> "undef"]

Err(msg) == [kind |-> "err", msg |-> msg]

IsVal(r) == r.kind = "val"

IsErr(r) == r.kind = "err"

\* Reading a property of, or destructuring, `undefined`.
TypeError == Err("TypeError")

\* BigInt(text) on text that is no integer literal.
SyntaxError == Err("SyntaxError")

-----------------------------------------------------------------------------
(* BigInt arithmetic *)

RECURSIVE Pow2(_)
Pow2(n) == IF n <= 0 THEN 1 ELSE 2 * Pow2(n - 1)

\* l >> r for l >= 0, r >= 0
RECURSIVE ShiftRight(_, _)
ShiftRight(l, r) == IF r <= 0 \/ l = 0 THEN l ELSE ShiftRight(l \div 2, r - 1)

\* x >> r for any x, r >= 0: floor(x / 2^r)
RECURSIVE ArithShiftRight(_, _)
ArithShiftRight(x, r) ==
  IF r <= 0 \/ x = 0 \/ x = -1 THEN x
  ELSE ArithShiftRight(IF x >= 0 THEN x \div 2 ELSE -((1 - x) \div 2), r - 1)

\* BigInt.asUintN(width, value): value modulo 2^width
asUintN(width, value) ==
  IF value >= 0 /\ ShiftRight(value, width) = 0 THEN value
  ELSE value % Pow2(width)

RECURSIVE BitAnd(_, _)
BitAnd(a, b) ==
  IF a = 0 \/ b = 0 THEN 0
  ELSE (a % 2) * (b % 2) + 2 * BitAnd(a \div 2, b \div 2)

RECURSIVE BitOr(_, _)
BitOr(a, b) ==
  IF a = 0 THEN b ELSE IF b = 0 THEN a
  ELSE (IF a % 2 = 1 \/ b % 2 = 1 THEN 1 ELSE 0) + 2 * BitOr(a \div 2, b \div 2)

RECURSIVE BitXor(_, _)
BitXor(a, b) ==
  IF a = 0 THEN b ELSE IF b = 0 THEN a
  ELSE ((a + b) % 2) + 2 * BitXor(a \div 2, b \div 2)

\* (BigInt(1) << BigInt(n)) - BigInt(1)
ones(n) == Pow2(n) - 1

-----------------------------------------------------------------------------
(* Literals *)

DecChars == {"0", "1", "2", "3", "4", "5", "6", "7", "8", "9"}

BinChars == {"0", "1"}

HexChars == DecChars \cup {"a", "b", "c", "d", "e", "f", "A", "B", "C", "D", "E", "F"}

DigitVal(c) ==
  CASE c = "0" -> 0 [] c = "1" -> 1 [] c = "2" -> 2 [] c = "3" -> 3
    [] c = "4" -> 4 [] c = "5" -> 5 [] c = "6" -> 6 [] c = "7" -> 7
    [] c = "8" -> 8 [] c = "9" -> 9
    [] c \in {"a", "A"} -> 10 [] c \in {"b", "B"} -> 11
    [] c \in {"c", "C"} -> 12 [] c \in {"d", "D"} -> 13
    [] c \in {"e", "E"} -> 14 [] c \in {"f", "F"} -> 15

AllIn(s, chars) == \A i \in 1..Len(s) : s[i] \in chars

\* the digits of s read in the given base, most significant first
RECURSIVE DigitsValue(_, _)
DigitsValue(s, base) ==
  IF Len(s) = 0 THEN 0
  ELSE DigitsValue(SubSeq(s, 1, Len(s) - 1), base) * base + DigitVal(s[Len(s)])

\* /^\d+$/
INT_LITERAL_REGEX(s) == Len(s) > 0 /\ AllIn(s, DecChars)

FirstQuote(s) ==
  IF \E i \in 1..Len(s) : s[i] = "'"
  THEN CHOOSE i \in 1..Len(s) : s[i] = "'" /\ \A j \in 1..(i - 1) : s[j] # "'"
  ELSE 0

\* /^(\d+)'([bBhHdD])([0-9a-fA-FxX]+)$/ : the three groups, or <<>> on no match
WIDTH_LITERAL_REGEX(s) ==
  LET q == FirstQuote(s) IN
  IF /\ q > 1
     /\ Len(s) >= q + 2
     /\ AllIn(SubSeq(s, 1, q - 1), DecChars)
     /\ s[q + 1] \in {"b", "B", "h", "H", "d", "D"}
     /\ AllIn(SubSeq(s, q + 2, Len(s)), HexChars \cup {"x", "X"})
  THEN <<SubSeq(s, 1, q - 1), s[q + 1], SubSeq(s, q + 2, Len(s))>>
  ELSE <<>>

toLowerCase(c) ==
  CASE c = "B" -> "b" [] c = "H" -> "h" [] c = "D" -> "d" [] OTHER -> c

\* BigInt(s) for a string s: a decimal literal, or a 0x / 0b prefixed one;
\* anything else is a SyntaxError
BigInt(s) ==
  LET rest == SubSeq(s, 3, Len(s)) IN
  IF Len(s) > 0 /\ AllIn(s, DecChars) THEN Val(0, DigitsValue(s, 10))
  ELSE IF Len(s) > 2 /\ s[1] = "0" /\ s[2] \in {"x", "X"} /\ AllIn(rest, HexChars)
    THEN Val(0, DigitsValue(rest, 16))
  ELSE IF Len(s) > 2 /\ s[1] = "0" /\ s[2] \in {"b", "B"} /\ AllIn(rest, BinChars)
    THEN Val(0, DigitsValue(rest, 2))
  ELSE SyntaxError

\* Math.ceil(Math.log2(m)) for an integer m >= 1
RECURSIVE CeilLog2From(_, _)
CeilLog2From(m, w) == IF Pow2(w) >= m THEN w ELSE CeilLog2From(m, w + 1)

CeilLog2(m) == CeilLog2From(m, 0)

evalConstant(text) ==
  IF INT_LITERAL_REGEX(text)
  THEN Val(CeilLog2(DigitsValue(text, 10) + 1), DigitsValue(text, 10))
  ELSE
    LET match == WIDTH_LITERAL_REGEX(text) IN
    IF match = <<>> THEN Err("Invalid constant format")
    ELSE
      LET width  == DigitsValue(match[1], 10)
          base   == toLowerCase(match[2])
          parsed == CASE base = "b" -> BigInt(<<"0", "b">> \o match[3])
                      [] base = "h" -> BigInt(<<"0", "x">> \o match[3])
                      [] base = "d" -> BigInt(match[3])
      IN IF IsErr(parsed) THEN parsed
         ELSE Val(width, asUintN(width, parsed.value))


-----------------------------------------------------------------------------
(* concatValues *)

\* concatValues with the fields packed the other way round: the first element
\* lands in the least-significant bits
RECURSIVE concatValuesLsbFirst(_)
concatValuesLsbFirst(vals) ==
  IF vals = <<>> THEN Val(0, 0)
  ELSE
    LET acc == concatValuesLsbFirst(SubSeq(vals, 1, Len(vals) - 1))
        v   == vals[Len(vals)]
    IN IF IsErr(acc) THEN acc
       ELSE IF v = Undef THEN TypeError
       ELSE IF v.width <= 0 THEN Err("width must be > 0")
       ELSE Val(acc.width + v.width,
                acc.value + asUintN(v.width, v.value) * Pow2(acc.width))

RECURSIVE concatValues(_)
concatValues(vals) ==
  IF vals = <<>> THEN Val(0, 0)
  ELSE
    LET acc == concatValues(SubSeq(vals, 1, Len(vals) - 1))
        v   == vals[Len(vals)]
    IN IF IsErr(acc) THEN acc
       ELSE IF v = Undef THEN TypeError
       ELSE IF v.width <= 0 THEN Err("width must be > 0")
       ELSE Val(acc.width + v.width,
                acc.value * Pow2(v.width) + asUintN(v.width, v.value))

-----------------------------------------------------------------------------
(* evalExpr, one operator per case of the switch *)

evalRegister(name, e) == IF name \in DOMAIN e THEN e[name] ELSE Undef

\* case '>>>' : sign-extend the left operand from its top bit, shift, mask
evalArithShift(lb, l, r) ==
  LET is_negative == IF lb >= 1 THEN ShiftRight(l, lb - 1) # 0 ELSE l # 0
      \* l | ~ones(lb): the low lb bits of l under an infinite run of ones
      l_ == IF is_negative THEN (l % (ones(lb) + 1)) + (-ones(lb) - 1) ELSE l
  IN Val(lb, asUintN(lb, ArithShiftRight(l_, r)))

\* asUintN(lb, l << r)
ShiftLeftMasked(lb, l, r) == IF r >= lb THEN 0 ELSE (l * Pow2(r)) % Pow2(lb)

Bit(b) == IF b THEN 1 ELSE 0

evalBinOp(op, L, R) ==
  LET lb == L.width
      l  == L.value
      r  == R.value
  IN CASE op = "+" -> Val(lb, asUintN(lb, l + r))
       [] op = "-" -> Val(lb, asUintN(lb, l - r))
       [] op = "*" -> Val(lb, asUintN(lb, l * r))
       [] op = "/" -> Val(lb, asUintN(lb, IF r = 0 THEN 0 ELSE l \div r))
       [] op = "&" -> Val(lb, BitAnd(l, r))
       [] op = "|" -> Val(lb, BitOr(l, r))
       [] op = "^" -> Val(lb, BitXor(l, r))
       [] op = "<" -> Val(1, asUintN(1, Bit(l < r)))
       [] op = ">" -> Val(1, asUintN(1, Bit(l > r)))
       [] op = "<=" -> Val(1, asUintN(1, Bit(l <= r)))
       [] op = ">=" -> Val(1, asUintN(1, Bit(l >= r)))
       [] op = "==" -> Val(1, asUintN(1, Bit(l = r)))
       [] op = "<<" -> Val(1, ShiftLeftMasked(lb, l, r))
       [] op = ">>" -> Val(1, ShiftRight(l, r))
       [] op = ">>>" -> evalArithShift(lb, l, r)
       [] OTHER -> Err("Unknown binary operator")

evalUnOp(op, V) ==
  LET width == V.width
      value == V.value
  IN CASE op = "-" -> Val(width, asUintN(width, -value))
       [] op = "~" -> Val(width, asUintN(width, -value - 1))
       [] op = "!" -> Val(1, Bit(value = 0))
       [] op = "|" -> Val(1, Bit(value # 0))
       [] op = "&" -> Val(1, Bit(asUintN(width, -value - 1) = 0))
       [] OTHER -> Err("Unknown unary operator")

\* `condition ? ... : ...` tests the object evalExpr returned, not its value:
\* a Value is truthy, undefined is falsy
condTruthy(condition) == condition # Undef

\* evalRepeat without the replication: one copy whatever the count
evalRepeatOnce(val, C) ==
  IF C = Undef THEN TypeError
  ELSE IF C.value <= 0 THEN Err("Repeat count must be > 0")
  ELSE IF val = Undef THEN TypeError
  ELSE IF val.width = 0 THEN Val(0, 0)
  ELSE concatValues(<<val>>)

evalRepeat(val, C) ==
  IF C = Undef THEN TypeError
  ELSE IF C.value <= 0 THEN Err("Repeat count must be > 0")
  ELSE IF val = Undef THEN TypeError
  ELSE IF val.width = 0 THEN Val(0, 0)
  ELSE concatValues([i \in 1..C.value |-> val])

Min(a, b) == IF a <= b THEN a ELSE b

Abs(a) == IF a >= 0 THEN a ELSE -a

evalSlice(start, end, val) ==
  LET base  == Min(start, end)
      width == Abs(start - end) + 1
  IN IF val = Undef THEN TypeError
     ELSE IF base + width > val.width THEN Err("Slice out of range")
     ELSE Val(width, asUintN(width, ShiftRight(val.value, start)))

evalSliceDyn(B, width, val) ==
  IF val = Undef THEN TypeError
  ELSE Val(width, asUintN(width, ShiftRight(val.value, B.value)))

evalSelect(val, idxv) ==
  IF idxv = Undef \/ val = Undef THEN TypeError
  ELSE Val(1, ShiftRight(val.value, idxv.value) % 2)

\* lines 157-160: whether slice_dyn logs "Slice out of range"
sliceDynWarns(B, width, val) == B.value + width > val.width

\* lines 171-174: whether select logs "Index out of range"
selectWarns(val, idxv) == idxv.value < 0 \/ idxv.value >= val.width

\* the first thrown error among the results, or <<>>
FirstErr(vals) ==
  IF \E i \in 1..Len(vals) : IsErr(vals[i])
  THEN vals[CHOOSE i \in 1..Len(vals) :
              IsErr(vals[i]) /\ \A j \in 1..(i - 1) : ~IsErr(vals[j])]
  ELSE <<>>

RECURSIVE evalExpr(_, _)
evalExpr(x, e) ==
  CASE x.type = "constant" -> evalConstant(x.value)
    [] x.type = "register" -> evalRegister(x.name, e)
    [] x.type = "bin_op" ->
         LET L == evalExpr(x.left, e) IN
         IF IsErr(L) THEN L ELSE IF L = Undef THEN TypeError
         ELSE LET R == evalExpr(x.right, e) IN
              IF IsErr(R) THEN R ELSE IF R = Undef THEN TypeError
              ELSE evalBinOp(x.op, L, R)
    [] x.type = "un_op" ->
         LET V == evalExpr(x.expr, e) IN
         IF IsErr(V) THEN V ELSE IF V = Undef THEN TypeError
         ELSE evalUnOp(x.op, V)
    [] x.type = "cond" ->
         LET condition == evalExpr(x.condition, e) IN
         IF IsErr(condition) THEN condition
         ELSE IF condTruthy(condition) THEN evalExpr(x.trueExpr, e)
         ELSE evalExpr(x.falseExpr, e)
    [] x.type = "concat" ->
         LET vals == [i \in 1..Len(x.exprs) |-> evalExpr(x.exprs[i], e)] IN
         IF FirstErr(vals) # <<>> THEN FirstErr(vals) ELSE concatValues(vals)
    [] x.type = "repeat" ->
         LET val == evalExpr(x.expr, e) IN
         IF IsErr(val) THEN val
         ELSE LET C == evalExpr(x.count, e) IN
              IF IsErr(C) THEN C ELSE evalRepeat(val, C)
    [] x.type = "slice" ->
         LET val == evalExpr(x.expr, e) IN
         IF IsErr(val) THEN val ELSE evalSlice(x.start, x.end, val)
    [] x.type = "slice_dyn" ->
         LET B == evalExpr(x.start, e) IN
         IF IsErr(B) THEN B ELSE IF B = Undef THEN TypeError
         ELSE LET val == evalExpr(x.expr, e) IN
              IF IsErr(val) THEN val ELSE evalSliceDyn(B, x.width, val)
    [] x.type = "select" ->
         LET val == evalExpr(x.expr, e) IN
         IF IsErr(val) THEN val
         ELSE LET idxv == evalExpr(x.index, e) IN
              IF IsErr(idxv) THEN idxv ELSE evalSelect(val, idxv)
    [] OTHER -> Err("Unknown expression type")

-----------------------------------------------------------------------------
(* Expr constructors (src/src/parser.ts, type Expr) *)

Constant(text) == [type |-> "constant", value |-> text]

Register(name) == [type |-> "register", name |-> name]

BinOp(op, left, right) == [type |-> "bin_op", op |-> op, left |-> left, right |-> right]

UnOp(op, x) == [type |-> "un_op", op |-> op, expr |-> x]

Cond(c, t, f) == [type |-> "cond", condition |-> c, trueExpr |-> t, falseExpr |-> f]

Concat(xs) == [type |-> "concat", exprs |-> xs]

Repeat(x, count) == [type |-> "repeat", expr |-> x, count |-> count]

Slice(x, start, end) == [type |-> "slice", expr |-> x, start |-> start, end |-> end]

SliceDyn(x, start, width) == [type |-> "slice_dyn", expr |-> x, start |-> start, width |-> width]

Select(x, index) == [type |-> "select", expr |-> x, index |-> index]

-----------------------------------------------------------------------------
(* Bounded inputs of the evaluator *)

\* longest concat list
MaxConcat == 3

\* largest static slice bound
MaxBit == 7

\* longest literal text enumerated exhaustively
MaxLitLen == 4

\* values bound to register a, and to register b; register x is never bound
PoolA == {Val(1, 0), Val(1, 1), Val(4, 10), Val(8, 255), Val(8, 60), Val(8, 180)}

PoolB == {Val(1, 0), Val(1, 1), Val(2, 3), Val(3, 4), Val(4, 11)}

Envs == {[n \in {"a", "b"} |-> IF n = "a" THEN va ELSE vb] : va \in PoolA, vb \in PoolB}

EmptyEnv == [n \in {} |-> Undef]

Leaves == {Register("a"), Register("b"), Register("x"), Constant(<<"2">>)}

ArithOps == {"+", "-", "*", "/", "&", "|", "^", "<<", ">>>"}

BinOpTokens == ArithOps \cup {"<", ">", "<=", ">=", "==", ">>", "%"}

UnOpTokens == {"-", "~", "!", "|", "&", "+"}

BinOps == {BinOp(op, l, r) : op \in BinOpTokens, l \in Leaves, r \in Leaves}

UnOps == {UnOp(op, x) : op \in UnOpTokens, x \in Leaves}

Conds ==
  {Cond(c, t, f) :
     c \in {Constant(<<"0">>), Constant(<<"1">>), Constant(<<"1", "'", "b", "0">>),
            Register("a"), Register("x")},
     t \in {Register("a"), Register("b"), Register("x")},
     f \in {Register("a"), Register("b"), Register("x")}}

ConcatLeaves ==
  {Register("b"), Constant(<<"4", "'", "b", "1", "0", "1", "0">>),
   Constant(<<"0">>), Register("x")}

Concats == {Concat(xs) : xs \in UNION {[1..n -> ConcatLeaves] : n \in 0..MaxConcat}}

Repeats ==
  {Repeat(x, c) :
     x \in {Register("b"), Register("x"), Constant(<<"0">>),
            BinOp("|", Register("b"), Register("a")),
            Concat(<<Register("b"), Constant(<<"4", "'", "b", "1", "0", "1", "0">>)>>)},
     c \in {Constant(<<"0">>), Constant(<<"1">>), Constant(<<"3">>), Register("x")}}

Slices ==
  {Slice(x, s, t) : x \in {Register("a"), Register("x")}, s \in 0..MaxBit, t \in 0..MaxBit}

SliceDyns ==
  {SliceDyn(Register("a"), s, w) :
     s \in {Register("b"), Register("x"), Constant(<<"2">>)}, w \in {0, 1, 4}}

Selects ==
  {Select(x, i) : x \in {Register("a"), Register("x")},
                  i \in {Register("b"), Register("x"), Constant(<<"2">>)}}

Nested ==
  {BinOp(op, l, Register("b")) :
     op \in {"+", "&"},
     l \in {BinOp("|", Register("b"), Register("a")), UnOp("~", Register("a")),
            Cond(Register("x"), Register("a"), Register("b"))}}
  \cup {UnOp("!", Register("a")), [type |-> "while"]}

Exprs ==
  Leaves \cup BinOps \cup UnOps \cup Conds \cup Concats \cup Repeats \cup Slices
  \cup SliceDyns \cup Selects \cup Nested

Alphabet == {"0", "1", "9", "F", "'", "b", "d", "h", "x", "-"}

ExampleTexts ==
  {<<"4", "2">>, <<"8", "'", "h", "F", "F">>, <<"4", "'", "b", "1", "0", "1", "0">>,
   <<"8", "'", "H", "f", "f">>, <<"1", "2", "'", "D", "2", "5", "5">>,
   <<"4", "'", "d", "0", "x", "1", "F">>, <<"8", "'", "d", "0", "b", "1", "1">>,
   <<"3", "'", "o", "7">>}

Texts == UNION {[1..n -> Alphabet] : n \in 0..MaxLitLen} \cup ExampleTexts

-----------------------------------------------------------------------------
(* One call of evalExpr *)

None == [kind |-> "none"]

\* JavaScript's null
Null == [kind |-> "null"]

Idle ==
  /\ mod = [inputs |-> <<>>, wires |-> <<>>, outputs |-> <<>>]
  /\ arg = <<>>
  /\ nodeByName = <<>>
  /\ indegree = EmptyEnv
  /\ revAdj = EmptyEnv
  /\ queue = <<>>
  /\ sorted = <<>>
  /\ idx = 0
  /\ inputs = EmptyEnv
  /\ tree = Null

InitEval ==
  /\ pc = "eval"
  /\ expr \in Exprs
  /\ env \in Envs
  /\ ret = None
  /\ Idle

InitConst ==
  /\ pc = "eval"
  /\ expr \in {Constant(t) : t \in Texts}
  /\ env = EmptyEnv
  /\ ret = None
  /\ Idle

Evaluate ==
  /\ pc = "eval"
  /\ ret' = evalExpr(expr, env)
  /\ pc' = "done"
  /\ UNCHANGED <<tree, expr, env, mod, arg, nodeByName, indegree, revAdj, queue, sorted,
                 idx, inputs>>

NextEval == Evaluate

SpecEval == InitEval /\ [][NextEval]_vars

SpecConst == InitConst /\ [][NextEval]_vars

-----------------------------------------------------------------------------
(* Claims about evalExpr, checked under SpecEval (C9 under SpecConst) *)

Done == pc = "done"

BitOf(v, k) == ShiftRight(v, k) % 2

RECURSIVE SumWidths(_)
SumWidths(vals) ==
  IF vals = <<>> THEN 0
  ELSE SumWidths(SubSeq(vals, 1, Len(vals) - 1)) + vals[Len(vals)].width

\* C1: every Value evalExpr returns satisfies 0 <= value < 2^width, for every
\* Expr shape and every environment of well-formed Values.
C1_WidthInvariant ==
  (Done /\ IsVal(ret)) => (0 <= ret.value /\ ret.value < Pow2(ret.width))

\* the condition of a cond evaluated to a Value
CondDecided ==
  /\ Done
  /\ expr.type = "cond"
  /\ IsVal(evalExpr(expr.condition, env))

\* C5: cond returns the true branch's value on a non-zero condition and the
\* false branch's value on a zero condition; the other branch is not evaluated.
C5_CondSelectsByValue ==
  CondDecided =>
    ret = IF evalExpr(expr.condition, env).value # 0
          THEN evalExpr(expr.trueExpr, env)
          ELSE evalExpr(expr.falseExpr, env)

\* the value of l >>> r at width w: the operand read as a two's-complement
\* number, divided by 2^r rounding down
SignedOf(w, l) == IF w >= 1 /\ BitOf(l, w - 1) = 1 THEN l - Pow2(w) ELSE l

ExactBinOp(op, w, l, r) ==
  CASE op = "+" -> (l + r) % Pow2(w)
    [] op = "-" -> (l - r) % Pow2(w)
    [] op = "*" -> (l * r) % Pow2(w)
    [] op = "/" -> (l \div r) % Pow2(w)
    [] op = "&" -> BitAnd(l, r) % Pow2(w)
    [] op = "|" -> BitOr(l, r) % Pow2(w)
    [] op = "^" -> BitXor(l, r) % Pow2(w)
    [] op = "<<" -> IF r >= w THEN 0 ELSE (l * Pow2(r)) % Pow2(w)
    [] op = ">>>" -> ArithShiftRight(SignedOf(w, l), r) % Pow2(w)

\* an arithmetic or bitwise bin_op whose two operands evaluated to Values
ArithCase ==
  /\ Done
  /\ expr.type = "bin_op"
  /\ expr.op \in ArithOps
  /\ IsVal(evalExpr(expr.left, env))
  /\ IsVal(evalExpr(expr.right, env))
  /\ (expr.op = "/" => evalExpr(expr.right, env).value # 0)

\* C6: for + - * / & | ^ << >>> the result has the left operand's width and
\* the exact result reduced modulo 2^width, whatever the right operand's width.
C6_ArithLeftWidthMasked ==
  ArithCase =>
    LET L == evalExpr(expr.left, env)
        R == evalExpr(expr.right, env)
    IN ret = Val(L.width, ExactBinOp(expr.op, L.width, L.value, R.value))

\* a static slice whose two bounds lie inside the source value
SliceInRange ==
  /\ Done
  /\ expr.type = "slice"
  /\ IsVal(evalExpr(expr.expr, env))
  /\ expr.start < evalExpr(expr.expr, env).width
  /\ expr.end < evalExpr(expr.expr, env).width

\* C7: slice(expr, start, end) has width |start-end|+1 and holds source bits
\* min(start,end)..max(start,end), in whichever order the bounds are written.
C7_SliceOrderIndependent ==
  SliceInRange =>
    LET src == evalExpr(expr.expr, env).value
        lo  == Min(expr.start, expr.end)
        w   == Abs(expr.start - expr.end) + 1
    IN /\ IsVal(ret)
       /\ ret.width = w
       /\ \A k \in 0..(w - 1) : BitOf(ret.value, k) = BitOf(src, lo + k)
       /\ ret.value < Pow2(w)

\* the elements of a concat, evaluated
ConcatVals == [i \in 1..Len(expr.exprs) |-> evalExpr(expr.exprs[i], env)]

\* a concat whose elements all evaluated to Values of width > 0
ConcatCase ==
  /\ Done
  /\ expr.type = "concat"
  /\ \A i \in 1..Len(expr.exprs) : IsVal(ConcatVals[i]) /\ ConcatVals[i].width > 0

\* C8: concat of e1..en returns width w1+...+wn, e1 in the most-significant
\* bits and en in the least-significant, each element contributing exactly
\* its own wi bits.
C8_ConcatPacking ==
  ConcatCase =>
    /\ IsVal(ret)
    /\ ret.width = SumWidths(ConcatVals)
    /\ ret.value < Pow2(ret.width)
    /\ \A i \in 1..Len(ConcatVals) :
         \A k \in 0..(ConcatVals[i].width - 1) :
           BitOf(ret.value,
                 SumWidths(SubSeq(ConcatVals, i + 1, Len(ConcatVals))) + k)
             = BitOf(ConcatVals[i].value, k)

\* {4,0xA} then {4,0xB} gives {8,0xAB}
C8_Witness ==
  /\ Done
  /\ expr = Concat(<<Constant(<<"4", "'", "b", "1", "0", "1", "0">>), Register("b")>>)
  /\ env["b"] = Val(4, 11)
  /\ ret = Val(8, 171)

\* what the literal grammar assigns to a text: <<width, value>>, or <<>> if the
\* text is neither a bare decimal nor <width>'<base><digits>
BaseChars(b) ==
  CASE b \in {"b", "B"} -> BinChars
    [] b \in {"h", "H"} -> HexChars
    [] b \in {"d", "D"} -> DecChars
    [] OTHER -> {}

BaseRadix(b) == CASE b \in {"b", "B"} -> 2 [] b \in {"h", "H"} -> 16 [] OTHER -> 10

LiteralMeaning(t) ==
  IF Len(t) > 0 /\ AllIn(t, DecChars)
  THEN LET n == DigitsValue(t, 10) IN
       <<CHOOSE w \in 0..31 : Pow2(w) >= n + 1 /\ (w = 0 \/ Pow2(w - 1) < n + 1), n>>
  ELSE IF \E q \in 2..(Len(t) - 2) :
            /\ AllIn(SubSeq(t, 1, q - 1), DecChars)
            /\ t[q] = "'"
            /\ AllIn(SubSeq(t, q + 2, Len(t)), BaseChars(t[q + 1]))
  THEN LET q == CHOOSE q \in 2..(Len(t) - 2) :
                  /\ AllIn(SubSeq(t, 1, q - 1), DecChars)
                  /\ t[q] = "'"
                  /\ AllIn(SubSeq(t, q + 2, Len(t)), BaseChars(t[q + 1]))
           w == DigitsValue(SubSeq(t, 1, q - 1), 10)
       IN <<w, asUintN(w, DigitsValue(SubSeq(t, q + 2, Len(t)), BaseRadix(t[q + 1])))>>
  ELSE <<>>

\* C9: a bare decimal n gives {ceil(log2(n+1)), n}; <width>'<base><digits>
\* with base b, h or d gives the declared width and the digits read in that
\* base modulo 2^width; any other text raises an error.
C9_LiteralParsing ==
  (Done /\ expr.type = "constant") =>
    IF LiteralMeaning(expr.value) = <<>> THEN IsErr(ret)
    ELSE ret = Val(LiteralMeaning(expr.value)[1], LiteralMeaning(expr.value)[2])

\* C10: register(name) with no binding for name raises an error; evalExpr
\* never returns undefined.
C10_MissingBindingThrows ==
  Done =>
    /\ ret # Undef
    /\ (expr.type = "register" /\ expr.name \notin DOMAIN env) => IsErr(ret)

\* an extraction whose source and base evaluated to Values
ExtractSrc == evalExpr(expr.expr, env)

SliceOutOfRange ==
  /\ Done
  /\ expr.type = "slice"
  /\ IsVal(ExtractSrc)
  /\ Min(expr.start, expr.end) + Abs(expr.start - expr.end) + 1 > ExtractSrc.width

SliceDynOutOfRange ==
  /\ Done
  /\ expr.type = "slice_dyn"
  /\ IsVal(ExtractSrc)
  /\ IsVal(evalExpr(expr.start, env))
  /\ evalExpr(expr.start, env).value + expr.width > ExtractSrc.width

SelectOutOfRange ==
  /\ Done
  /\ expr.type = "select"
  /\ IsVal(ExtractSrc)
  /\ IsVal(evalExpr(expr.index, env))
  /\ evalExpr(expr.index, env).value >= ExtractSrc.width

\* C11: an out-of-range extraction never aborts evaluation: a static slice
\* with min(start,end)+width beyond the source width, a slice_dyn with
\* base+width beyond it and a select with index >= the source width only log a
\* diagnostic and return a Value of the requested width (1 for select),
\* masked to that width.
C11_OutOfRangeNeverAborts ==
  /\ SliceOutOfRange =>
       /\ IsVal(ret)
       /\ ret.width = Abs(expr.start - expr.end) + 1
       /\ ret.value < Pow2(ret.width)
  /\ SliceDynOutOfRange =>
       /\ sliceDynWarns(evalExpr(expr.start, env), expr.width, ExtractSrc)
       /\ ret = Val(expr.width,
                    ShiftRight(ExtractSrc.value, evalExpr(expr.start, env).value)
                      % Pow2(expr.width))
  /\ SelectOutOfRange =>
       /\ selectWarns(ExtractSrc, evalExpr(expr.index, env))
       /\ ret = Val(1, BitOf(ExtractSrc.value, evalExpr(expr.index, env).value))

\* a repeat whose inner expression and count both evaluated to Values
RepeatCase ==
  /\ Done
  /\ expr.type = "repeat"
  /\ IsVal(evalExpr(expr.expr, env))
  /\ IsVal(evalExpr(expr.count, env))

\* C17: repeat(expr, count) is an error when count evaluates to an integer
\* <= 0; otherwise, for count k and an inner value of width w > 0, the result
\* has width k*w and holds k copies of the inner value's w bits, and for an
\* inner value of width 0 it is {width 0, value 0}.
C17_RepeatReplicates ==
  RepeatCase =>
    LET v == evalExpr(expr.expr, env)
        k == evalExpr(expr.count, env).value
    IN IF k <= 0 THEN IsErr(ret)
       ELSE IF v.width = 0 THEN ret = Val(0, 0)
       ELSE /\ IsVal(ret)
            /\ ret.width = k * v.width
            /\ ret.value < Pow2(ret.width)
            /\ \A i \in 0..(k - 1) :
                 \A j \in 0..(v.width - 1) :
                   BitOf(ret.value, i * v.width + j) = BitOf(v.value, j)

\* {3, 0b100} three times gives {9, 0b100100100}
C17_Witness ==
  /\ Done
  /\ expr = Repeat(Register("b"), Constant(<<"3">>))
  /\ env["b"] = Val(3, 4)
  /\ ret = Val(9, 292)

-----------------------------------------------------------------------------
(* Modules handed to sortWires *)

\* most wires in a module
MaxWires == 3

Wire(name, width, value, dep_list) ==
  [name |-> name, width |-> width, value |-> value, dep_list |-> dep_list]

\* c = a + b and d = a * b are the wires of the module in src/src/App.tsx
WirePool ==
  { Wire("c", 8, BinOp("+", Register("a"), Register("b")), <<"a", "b">>),
    Wire("d", 8, BinOp("*", Register("a"), Register("b")), <<"a", "b">>),
    Wire("c", 8, Register("d"), <<"d">>),
    Wire("d", 8, BinOp("&", Register("c"), Register("a")), <<"c", "a">>),
    Wire("d", 8, Register("e"), <<"e">>),
    Wire("e", 8, UnOp("~", Register("c")), <<"c">>),
    Wire("e", 8, BinOp("+", Register("e"), Constant(<<"1">>)), <<"e">>),
    Wire("c", 8, Register("z"), <<"z">>),
    Wire("e", 8, BinOp("+", Register("c"), Register("d")), <<"c">>),
    Wire("a", 8, Register("b"), <<"b">>),
    Wire("e", 16, Concat(<<Register("c"), Register("d")>>), <<"c", "d">>),
    Wire("e", 8, Cond(Register("c"), Register("d"), Register("a")),
         <<"c", "d", "a", "c">>),
    Wire("c", 8, Constant(<<"8", "'", "h", "F", "F">>), <<>>),
    Wire("d", 4, Slice(Register("a"), 5, 2), <<"a">>) }

ModuleInputs == <<[name |-> "a", width |-> 8], [name |-> "b", width |-> 8]>>

Modules ==
  {[inputs |-> ModuleInputs, wires |-> ws, outputs |-> <<"c", "d">>] :
     ws \in UNION {[1..n -> WirePool] : n \in 0..MaxWires}}

\* the inputs a caller may supply to simulateCircuit
SuppliedInputs ==
  { [n \in {"a", "b"} |-> IF n = "a" THEN Val(8, 3) ELSE Val(8, 4)],
    [n \in {"a", "b"} |-> IF n = "a" THEN Val(8, 255) ELSE Val(8, 1)],
    [n \in {"a", "b"} |-> IF n = "a" THEN Val(4, 3) ELSE Val(8, 4)],
    [n \in {"a"} |-> Val(8, 3)] }

-----------------------------------------------------------------------------
(* topoSort *)

MapSet(f, k, v) == [x \in DOMAIN f \cup {k} |-> IF x = k THEN v ELSE f[x]]

\* Map.get(k) ?? d
MapGet(f, k, d) == IF k \in DOMAIN f THEN f[k] ELSE d

Range(q) == {q[i] : i \in 1..Len(q)}

NamesOf(ws) == [i \in 1..Len(ws) |-> ws[i].name]

\* a name -> Wire map that never reports a name as present
HasNever(nodes, name) == FALSE

\* nodeByName.has(name)
Has(nodes, name) == name \in Range(NamesOf(nodes))

\* nodeByName.get(name)
Get(nodes, name) == nodes[CHOOSE i \in 1..Len(nodes) : nodes[i].name = name]

\* AddEdges counting a wire's in-degree as 1 however many wires it depends on
RECURSIVE AddEdgesCountOnce(_, _, _, _, _)
AddEdgesCountOnce(name, dep_list, inputset, nodes, st) ==
  IF dep_list = <<>> THEN st
  ELSE
    LET before == AddEdgesCountOnce(name, SubSeq(dep_list, 1, Len(dep_list) - 1),
                                    inputset, nodes, st)
        d == dep_list[Len(dep_list)]
    IN IF before.err # "" THEN before
       ELSE IF d \in inputset THEN before
       ELSE IF ~Has(nodes, d) THEN [before EXCEPT !.err = "Dependency not found"]
       ELSE [before EXCEPT
               !.indegree = MapSet(before.indegree, name, 1),
               !.revAdj = MapSet(before.revAdj, d,
                                 Append(MapGet(before.revAdj, d, <<>>), name))]

\* AddEdges recording no edge at all: every resolvable dependency is skipped
\* the way a primary input is
RECURSIVE AddEdgesNone(_, _, _, _, _)
AddEdgesNone(name, dep_list, inputset, nodes, st) ==
  IF dep_list = <<>> THEN st
  ELSE
    LET before == AddEdgesNone(name, SubSeq(dep_list, 1, Len(dep_list) - 1),
                               inputset, nodes, st)
        d == dep_list[Len(dep_list)]
    IN IF before.err # "" THEN before
       ELSE IF d \in inputset THEN before
       ELSE IF ~Has(nodes, d) THEN [before EXCEPT !.err = "Dependency not found"]
       ELSE before

\* AddEdges without the primary-input test of lines 261-264: an input name is
\* looked up among the wires like any other dependency
RECURSIVE AddEdgesInputsAsNodes(_, _, _, _, _)
AddEdgesInputsAsNodes(name, dep_list, inputset, nodes, st) ==
  IF dep_list = <<>> THEN st
  ELSE
    LET before == AddEdgesInputsAsNodes(name, SubSeq(dep_list, 1, Len(dep_list) - 1),
                                        inputset, nodes, st)
        d == dep_list[Len(dep_list)]
    IN IF before.err # "" THEN before
       ELSE IF ~Has(nodes, d) THEN [before EXCEPT !.err = "Dependency not found"]
       ELSE [before EXCEPT
               !.indegree = MapSet(before.indegree, name,
                                   MapGet(before.indegree, name, 0) + 1),
               !.revAdj = MapSet(before.revAdj, d,
                                 Append(MapGet(before.revAdj, d, <<>>), name))]

\* lines 260-273: the loop over one wire's dep_list; st carries indegree,
\* revAdj and the error thrown so far ("" for none)
RECURSIVE AddEdges(_, _, _, _, _)
AddEdges(name, dep_list, inputset, nodes, st) ==
  IF dep_list = <<>> THEN st
  ELSE
    LET before == AddEdges(name, SubSeq(dep_list, 1, Len(dep_list) - 1),
                           inputset, nodes, st)
        d == dep_list[Len(dep_list)]
    IN IF before.err # "" THEN before
       ELSE IF d \in inputset THEN before
       ELSE IF ~Has(nodes, d) THEN [before EXCEPT !.err = "Dependency not found"]
       ELSE [before EXCEPT
               !.indegree = MapSet(before.indegree, name,
                                   MapGet(before.indegree, name, 0) + 1),
               !.revAdj = MapSet(before.revAdj, d,
                                 Append(MapGet(before.revAdj, d, <<>>), name))]

\* Release without the zero test of line 290: a neighbor is enqueued every
\* time its in-degree is decremented
RECURSIVE ReleaseEager(_, _)
ReleaseEager(neighbors, st) ==
  IF neighbors = <<>> THEN st
  ELSE
    LET before == ReleaseEager(SubSeq(neighbors, 1, Len(neighbors) - 1), st)
        neighbor == neighbors[Len(neighbors)]
        deg == before.indegree[neighbor] - 1
    IN [indegree |-> MapSet(before.indegree, neighbor, deg),
        queue |-> Append(before.queue, neighbor)]

\* lines 288-291: the loop over the neighbors of an emitted node; st carries
\* indegree and queue
RECURSIVE Release(_, _)
Release(neighbors, st) ==
  IF neighbors = <<>> THEN st
  ELSE
    LET before == Release(SubSeq(neighbors, 1, Len(neighbors) - 1), st)
        neighbor == neighbors[Len(neighbors)]
        deg == before.indegree[neighbor] - 1
    IN [indegree |-> MapSet(before.indegree, neighbor, deg),
        queue |-> IF deg = 0 THEN Append(before.queue, neighbor) ELSE before.queue]

\* the final length check left out
cycleDetectedNever(out, nodes) == FALSE

\* line 295
cycleDetected(out, nodes) == Len(out) # Len(nodes)

InputNames(m) == Range(NamesOf(m.inputs))

Init ==
  /\ pc = "sortWires"
  /\ mod \in Modules
  /\ arg = <<>>
  /\ expr = Constant(<<"0">>)
  /\ env = EmptyEnv
  /\ ret = None
  /\ nodeByName = <<>>
  /\ indegree = EmptyEnv
  /\ revAdj = EmptyEnv
  /\ queue = <<>>
  /\ sorted = <<>>
  /\ idx = 0
  /\ inputs = EmptyEnv
  /\ tree = Null

\* sortWires(mod) calls topoSort(mod.wires, names of mod.inputs)
CallTopoSort ==
  /\ pc = "sortWires"
  /\ arg' = mod.wires
  /\ idx' = 1
  /\ pc' = "names"
  /\ UNCHANGED <<tree, expr, env, ret, mod, nodeByName, indegree, revAdj, queue, sorted,
                 inputs>>

Throw(msg) ==
  /\ pc' = "failed"
  /\ ret' = Err(msg)

\* lines 244-249, one iteration
RegisterNode ==
  /\ pc = "names"
  /\ IF idx > Len(mod.wires)
     THEN /\ pc' = "edges"
          /\ idx' = 1
          /\ UNCHANGED <<ret, nodeByName>>
     ELSE IF Has(nodeByName, mod.wires[idx].name)
     THEN /\ Throw("Duplicate node name")
          /\ UNCHANGED <<idx, nodeByName>>
     ELSE /\ nodeByName' = Append(nodeByName, mod.wires[idx])
          /\ idx' = idx + 1
          /\ UNCHANGED <<pc, ret>>
  /\ UNCHANGED <<tree, expr, env, mod, arg, indegree, revAdj, queue, sorted, inputs>>

\* lines 256-274, one iteration of the outer loop
BuildEdges ==
  /\ pc = "edges"
  /\ IF idx > Len(nodeByName)
     THEN /\ pc' = "queue"
          /\ UNCHANGED <<ret, indegree, revAdj, idx>>
     ELSE
       LET name == nodeByName[idx].name
           st == AddEdges(name, nodeByName[idx].dep_list, InputNames(mod), nodeByName,
                          [indegree |-> MapSet(indegree, name, MapGet(indegree, name, 0)),
                           revAdj |-> revAdj, err |-> ""])
       IN IF st.err # ""
          THEN /\ Throw(st.err)
               /\ UNCHANGED <<indegree, revAdj, idx>>
          ELSE /\ indegree' = st.indegree
               /\ revAdj' = st.revAdj
               /\ idx' = idx + 1
               /\ UNCHANGED <<pc, ret>>
  /\ UNCHANGED <<tree, expr, env, mod, arg, nodeByName, queue, sorted, inputs>>

\* lines 277-280; indegree's keys were inserted in nodeByName's order
FillQueue ==
  /\ pc = "queue"
  /\ queue' = SelectSeq(NamesOf(nodeByName), LAMBDA n : indegree[n] = 0)
  /\ pc' = "kahn"
  /\ UNCHANGED <<tree, expr, env, ret, mod, arg, nodeByName, indegree, revAdj, sorted,
                 idx, inputs>>

\* lines 284-292, one iteration
KahnStep ==
  /\ pc = "kahn"
  /\ queue # <<>>
  /\ LET n == Head(queue)
         st == Release(MapGet(revAdj, n, <<>>),
                       [indegree |-> indegree, queue |-> Tail(queue)])
     IN /\ sorted' = Append(sorted, Get(nodeByName, n))
        /\ indegree' = st.indegree
        /\ queue' = st.queue
  /\ UNCHANGED <<pc, tree, expr, env, ret, mod, arg, nodeByName, revAdj, idx, inputs>>

\* lines 295-301
TopoReturn ==
  /\ pc = "kahn"
  /\ queue = <<>>
  /\ IF cycleDetected(sorted, nodeByName)
     THEN Throw("Cycle detected: topological sort impossible")
     ELSE /\ pc' = "topoSorted"
          /\ UNCHANGED ret
  /\ UNCHANGED <<tree, expr, env, mod, arg, nodeByName, indegree, revAdj, queue, sorted,
                 idx, inputs>>

\* lines 236-237: mod.wires = <topoSort's result>; return mod
SortWiresReturn ==
  /\ pc = "topoSorted"
  /\ mod' = [mod EXCEPT !.wires = sorted]
  /\ pc' = "sorted"
  /\ UNCHANGED <<tree, expr, env, ret, arg, nodeByName, indegree, revAdj, queue, sorted,
                 idx, inputs>>

-----------------------------------------------------------------------------
(* simulateCircuit, called on the Module sortWires returned *)

SimThrow(r) ==
  /\ pc' = "simFailed"
  /\ ret' = r

\* InputError without the width test of lines 197-199
RECURSIVE InputErrorNoWidth(_, _)
InputErrorNoWidth(declared, supplied) ==
  IF declared = <<>> THEN None
  ELSE
    LET input == Head(declared) IN
    IF input.name \notin DOMAIN supplied THEN Err("Missing input")
    ELSE InputErrorNoWidth(Tail(declared), supplied)

\* lines 194-199: what the loop over module.inputs throws first, or None
RECURSIVE InputError(_, _)
InputError(declared, supplied) ==
  IF declared = <<>> THEN None
  ELSE
    LET input == Head(declared) IN
    IF input.name \notin DOMAIN supplied THEN Err("Missing input")
    ELSE IF supplied[input.name].width # input.width THEN Err("Input width mismatch")
    ELSE InputError(Tail(declared), supplied)

\* lines 191-201
BindInputs ==
  /\ pc = "sorted"
  /\ \E supplied \in SuppliedInputs :
       /\ inputs' = supplied
       /\ IF InputError(mod.inputs, supplied) # None
          THEN /\ SimThrow(InputError(mod.inputs, supplied))
               /\ UNCHANGED <<env, idx>>
          ELSE /\ env' = [n \in InputNames(mod) |-> supplied[n]]
               /\ idx' = 1
               /\ pc' = "wires"
               /\ UNCHANGED ret
  /\ UNCHANGED <<tree, expr, mod, arg, nodeByName, indegree, revAdj, queue, sorted>>

\* lines 205-211, one iteration: an undefined result is stored and then read
\* for its width, which throws
EvalWire ==
  /\ pc = "wires"
  /\ idx <= Len(mod.wires)
  /\ LET wire == mod.wires[idx]
         r == evalExpr(wire.value, env)
     IN IF IsErr(r) THEN SimThrow(r) /\ UNCHANGED <<env, idx>>
        ELSE IF r = Undef THEN SimThrow(TypeError) /\ UNCHANGED <<env, idx>>
        ELSE /\ env' = MapSet(env, wire.name, r)
             /\ idx' = idx + 1
             /\ UNCHANGED <<pc, ret>>
  /\ UNCHANGED <<tree, expr, mod, arg, nodeByName, indegree, revAdj, queue, sorted, inputs>>

\* line 213
SimReturn ==
  /\ pc = "wires"
  /\ idx > Len(mod.wires)
  /\ ret' = [kind |-> "env", env |-> env]
  /\ pc' = "done"
  /\ UNCHANGED <<tree, expr, env, mod, arg, nodeByName, indegree, revAdj, queue, sorted,
                 idx, inputs>>

Next ==
  \/ CallTopoSort
  \/ RegisterNode
  \/ BuildEdges
  \/ FillQueue
  \/ KahnStep
  \/ TopoReturn
  \/ SortWiresReturn
  \/ BindInputs
  \/ EvalWire
  \/ SimReturn

Spec == Init /\ [][Next]_vars

-----------------------------------------------------------------------------
(* Claims about topoSort and simulateCircuit, checked under Spec *)

\* every non-input name in a wire's dep_list names a wire at a smaller index
Ordered(ws, inputset) ==
  \A i \in 1..Len(ws) :
    \A d \in Range(ws[i].dep_list) :
      d \notin inputset => \E j \in 1..(i - 1) : ws[j].name = d

\* C2: whenever topoSort succeeds, every non-input name in a returned wire's
\* dep_list is the name of a wire at a strictly smaller index.
C2_TopologicalOrder ==
  /\ pc = "topoSorted" => Ordered(sorted, InputNames(mod))
  /\ pc = "sorted" => Ordered(mod.wires, InputNames(mod))

\* a successful sort of wires of which one depends on another wire
C2_Witness ==
  /\ pc = "sorted"
  /\ Len(mod.wires) = MaxWires
  /\ \E i \in 1..Len(mod.wires) :
       \E d \in Range(mod.wires[i].dep_list) : d \notin InputNames(mod)
  /\ mod.wires # arg

\* topoSort has returned or thrown
TopoEnded == pc \notin {"sortWires", "names", "edges", "queue", "kahn"}

\* the non-input names the wires called n depend on
NonInputDeps(ws, inputset, n) ==
  UNION {Range(ws[i].dep_list) \ inputset : i \in {j \in 1..Len(ws) : ws[j].name = n}}

\* some wires depend on each other in a circle: a set of wire names each of
\* which depends on a member of the set
HasCycle(ws, inputset) ==
  \E S \in SUBSET Range(NamesOf(ws)) :
    /\ S # {}
    /\ \A n \in S : NonInputDeps(ws, inputset, n) \cap S # {}

UniqueNames(ws) == \A i, j \in 1..Len(ws) : ws[i].name = ws[j].name => i = j

Resolvable(ws, inputset) ==
  \A i \in 1..Len(ws) : Range(ws[i].dep_list) \subseteq inputset \cup Range(NamesOf(ws))

CycleError == Err("Cycle detected: topological sort impossible")

\* C3 as stated: a cycle among the non-input dependencies always ends topoSort
\* with the cycle error, and unique names, resolvable dependencies and no
\* cycle never do.
C3_CycleAlwaysCycleError ==
  /\ (TopoEnded /\ HasCycle(arg, InputNames(mod)))
       => (pc = "failed" /\ ret = CycleError)
  /\ (UniqueNames(arg) /\ Resolvable(arg, InputNames(mod))
        /\ ~HasCycle(arg, InputNames(mod)))
       => ret # CycleError

\* C3 amended: a cycle among the non-input dependencies always makes topoSort
\* throw and return no ordering; what it throws is the cycle error when the
\* names are unique and every dependency resolves, and the duplicate-name or
\* dependency-not-found error otherwise; unique names, resolvable dependencies
\* and no cycle never raise the cycle error.
C3_CycleDetection ==
  /\ (TopoEnded /\ HasCycle(arg, InputNames(mod)))
       => /\ pc = "failed"
          /\ IF UniqueNames(arg) /\ Resolvable(arg, InputNames(mod))
             THEN ret = CycleError
             ELSE ret \in {Err("Duplicate node name"), Err("Dependency not found")}
  /\ (UniqueNames(arg) /\ Resolvable(arg, InputNames(mod))
        /\ ~HasCycle(arg, InputNames(mod)))
       => ret # CycleError

\* three wires in a circle, rejected with the cycle error
C3_Witness ==
  /\ pc = "failed"
  /\ ret = CycleError
  /\ Len(arg) = 3
  /\ \A n \in Range(NamesOf(arg)) :
       Cardinality(NonInputDeps(arg, InputNames(mod), n)) = 1
  /\ HasCycle(arg, InputNames(mod))

\* the names an expression reads
RECURSIVE ExprRefs(_)
ExprRefs(x) ==
  CASE x.type = "register" -> {x.name}
    [] x.type = "bin_op" -> ExprRefs(x.left) \cup ExprRefs(x.right)
    [] x.type = "un_op" -> ExprRefs(x.expr)
    [] x.type = "cond" ->
         ExprRefs(x.condition) \cup ExprRefs(x.trueExpr) \cup ExprRefs(x.falseExpr)
    [] x.type = "concat" -> UNION {ExprRefs(x.exprs[i]) : i \in 1..Len(x.exprs)}
    [] x.type = "repeat" -> ExprRefs(x.expr) \cup ExprRefs(x.count)
    [] x.type = "slice" -> ExprRefs(x.expr)
    [] x.type = "slice_dyn" -> ExprRefs(x.expr) \cup ExprRefs(x.start)
    [] x.type = "select" -> ExprRefs(x.expr) \cup ExprRefs(x.index)
    [] OTHER -> {}

\* every wire's dep_list names everything its expression reads
DepsComplete(ws) ==
  \A i \in 1..Len(ws) : ExprRefs(ws[i].value) \subseteq Range(ws[i].dep_list)

\* every declared input is supplied with its declared width
InputsSupplied ==
  \A i \in 1..Len(mod.inputs) :
    /\ mod.inputs[i].name \in DOMAIN inputs
    /\ inputs[mod.inputs[i].name].width = mod.inputs[i].width

\* simulateCircuit runs, or has run, on a sorted module with complete
\* dep_lists and well-supplied inputs
SimCase ==
  /\ pc \in {"wires", "done", "simFailed"}
  /\ DepsComplete(mod.wires)
  /\ InputsSupplied

AppWires ==
  <<Wire("c", 8, BinOp("+", Register("a"), Register("b")), <<"a", "b">>),
    Wire("d", 8, BinOp("*", Register("a"), Register("b")), <<"a", "b">>)>>

\* C4: on a sorted module with complete dep_lists and well-supplied inputs,
\* simulateCircuit binds the inputs and then the wires strictly in list order
\* into a fresh Env; every name a wire reads is bound when the wire is
\* evaluated; the returned Env binds every input and every wire; a=3, b=4,
\* c=a+b, d=a*b gives c=7 and d=12 at width 8.
C4_SequentialEvaluation ==
  SimCase =>
    /\ pc = "wires" =>
         /\ DOMAIN env = InputNames(mod) \cup {mod.wires[j].name : j \in 1..(idx - 1)}
         /\ idx <= Len(mod.wires) => ExprRefs(mod.wires[idx].value) \subseteq DOMAIN env
    /\ pc = "simFailed" => ret # TypeError
    /\ pc = "done" =>
         /\ ret = [kind |-> "env", env |-> env]
         /\ InputNames(mod) \cup Range(NamesOf(mod.wires)) \subseteq DOMAIN env
         /\ \A n \in DOMAIN env : IsVal(env[n])
         /\ \A n \in InputNames(mod) \ Range(NamesOf(mod.wires)) : env[n] = inputs[n]
         /\ (mod.wires = AppWires /\ inputs["a"] = Val(8, 3) /\ inputs["b"] = Val(8, 4))
              => (env["c"] = Val(8, 7) /\ env["d"] = Val(8, 12))

\* the module of src/src/App.tsx simulated with a=3, b=4
C4_Witness ==
  /\ pc = "done"
  /\ mod.wires = AppWires
  /\ inputs["a"] = Val(8, 3)
  /\ inputs["b"] = Val(8, 4)
  /\ ret.env["c"] = Val(8, 7)
  /\ ret.env["d"] = Val(8, 12)

DependencyError == Err("Dependency not found")

DuplicateError == Err("Duplicate node name")

\* how many entries of a dep_list are not primary-input names
NonInputCount(dep_list, inputset) ==
  Cardinality({k \in 1..Len(dep_list) : dep_list[k] \notin inputset})

\* lines 256-274 have run over every wire: each wire's in-degree counts its
\* non-input dependencies and no primary-input name has dependents recorded
NoInputEdges ==
  /\ DOMAIN revAdj \cap InputNames(mod) = {}
  /\ pc = "queue" =>
       \A i \in 1..Len(nodeByName) :
         indegree[nodeByName[i].name]
           = NonInputCount(nodeByName[i].dep_list, InputNames(mod))

\* C12 as stated: a dep_list entry that names neither a wire nor a primary
\* input always ends topoSort with the dependency-not-found error; a
\* dependency on a primary input never causes that error and adds no edge.
C12_UnresolvedAlwaysDependencyError ==
  /\ (TopoEnded /\ ~Resolvable(arg, InputNames(mod)))
       => (pc = "failed" /\ ret = DependencyError)
  /\ Resolvable(arg, InputNames(mod)) => ret # DependencyError
  /\ NoInputEdges

\* C12 amended: a dep_list entry that names neither a wire nor a primary
\* input always makes topoSort throw and return no ordering; what it throws is
\* the dependency-not-found error when the wire names are unique and the
\* duplicate-name error otherwise; when every dep_list entry names a wire or a
\* primary input the dependency-not-found error is never raised, and a
\* dependency on a primary input adds no edge.
C12_DependencyNotFound ==
  /\ (TopoEnded /\ ~Resolvable(arg, InputNames(mod)))
       => /\ pc = "failed"
          /\ ret = IF UniqueNames(arg) THEN DependencyError ELSE DuplicateError
  /\ Resolvable(arg, InputNames(mod)) => ret # DependencyError
  /\ NoInputEdges

\* a wire reading only primary inputs next to a wire reading an unknown name
C12_Witness ==
  /\ pc = "failed"
  /\ ret = DependencyError
  /\ UniqueNames(arg)
  /\ \E i, j \in 1..Len(arg) :
       /\ Range(arg[i].dep_list) \cap InputNames(mod) # {}
       /\ Range(arg[j].dep_list) \ (InputNames(mod) \cup Range(NamesOf(arg))) # {}

-----------------------------------------------------------------------------
(* parseVerilogModule (src/src/parser.ts). The syntax tree is given by what  *)
(* the translator reads of it: the root's type, its module_declaration       *)
(* child, the number of ERROR nodes below it and, in document order, the     *)
(* ansi_port_declaration, net_decl_assignment and net_assignment nodes. An   *)
(* expression node carries what parse_expr returns for it.                   *)

\* no such child node
NoNode == [kind |-> "absent"]

\* {expr, deps}, or Null where parse_expr gives up on the node
ExprNode(parsed) == [kind |-> "expression", parsed |-> parsed]

ParsedExpr(x, deps) == [expr |-> x, deps |-> deps]

\* line 215: if (!node) return null
parse_expr(node) == IF node = NoNode THEN Null ELSE node.parsed

\* dim is <<msb, lsb>> for a packed dimension [msb:lsb], <<>> for none
PortDecl(direction, name, dim) == [direction |-> direction, name |-> name, dim |-> dim]

NetDeclAssignment(name, dim, expression) ==
  [name |-> name, dim |-> dim, expression |-> expression]

\* a simple_identifier node
Identifier(text) == [kind |-> "simple_identifier", text |-> text]

NetAssignment(lvalue, expression) == [lvalue |-> lvalue, expression |-> expression]

\* lines 106-107 and 123-124
DimWidth(dim) == IF dim = <<>> THEN 1 ELSE Abs(dim[1] - dim[2]) + 1

\* lines 93-117: st carries ret.inputs, ret.outputs, ret.wires and wire_decls
RECURSIVE PortsPass(_, _)
PortsPass(ports, st) ==
  IF ports = <<>> THEN st
  ELSE
    LET before == PortsPass(SubSeq(ports, 1, Len(ports) - 1), st)
        node == ports[Len(ports)]
        width == DimWidth(node.dim)
    IN IF node.direction = "input"
       THEN [before EXCEPT
               !.inputs = Append(@, [name |-> node.name, width |-> width])]
       ELSE [before EXCEPT
               !.wire_decls = MapSet(@, node.name, [width |-> width]),
               !.outputs = Append(@, node.name)]

\* lines 120-148
RECURSIVE NetsPass(_, _)
NetsPass(nets, st) ==
  IF nets = <<>> THEN st
  ELSE
    LET before == NetsPass(SubSeq(nets, 1, Len(nets) - 1), st)
        anode == nets[Len(nets)]
        width == DimWidth(anode.dim)
        exprp == parse_expr(anode.expression)
    IN IF anode.expression = NoNode
       THEN [before EXCEPT !.wire_decls = MapSet(@, anode.name, [width |-> width])]
       ELSE IF exprp = Null THEN before
       ELSE [before EXCEPT
               !.wires = Append(@, Wire(anode.name, width, exprp.expr, exprp.deps))]

\* lines 151-183
RECURSIVE AssignsPass(_, _)
AssignsPass(assigns, st) ==
  IF assigns = <<>> THEN st
  ELSE
    LET before == AssignsPass(SubSeq(assigns, 1, Len(assigns) - 1), st)
        anode == assigns[Len(assigns)]
        parsed == parse_expr(anode.expression)
    IN IF anode.lvalue = NoNode \/ anode.expression = NoNode THEN before
       ELSE IF parsed = Null THEN before
       ELSE IF anode.lvalue.text \notin DOMAIN before.wire_decls THEN before
       ELSE [before EXCEPT
               !.wires = Append(@, Wire(anode.lvalue.text,
                                        before.wire_decls[anode.lvalue.text].width,
                                        parsed.expr, parsed.deps))]

\* lines 84-183: the Module built from a module_declaration
Translate(module) ==
  LET st == AssignsPass(module.assigns,
              NetsPass(module.nets,
                PortsPass(module.ports,
                  [inputs |-> <<>>, wires |-> <<>>, outputs |-> <<>>,
                   wire_decls |-> EmptyEnv])))
  IN [inputs |-> st.inputs, wires |-> st.wires, outputs |-> st.outputs]

\* lines 186-198: the names the duplicate check warns about; it removes nothing
InvalidAssignmentWarnings(m) == Range(NamesOf(m.wires)) \cap InputNames(m)

DuplicateAssignmentWarnings(m) ==
  {m.wires[j].name : j \in {k \in 1..Len(m.wires) :
     /\ m.wires[k].name \notin InputNames(m)
     /\ \E i \in 1..(k - 1) : m.wires[i].name = m.wires[k].name}}

\* most net_decl_assignment nodes, and most net_assignment nodes, in a tree
MaxNets == 1

MaxAssigns == 2

PortLists ==
  { <<PortDecl("input", "a", <<7, 0>>), PortDecl("input", "b", <<7, 0>>),
      PortDecl("output", "c", <<7, 0>>), PortDecl("output", "d", <<0, 7>>)>>,
    <<PortDecl("input", "a", <<7, 0>>), PortDecl("input", "b", <<7, 0>>),
      PortDecl("output", "c", <<>>)>>,
    <<PortDecl("input", "a", <<7, 0>>), PortDecl("input", "b", <<7, 0>>),
      PortDecl("inout", "a", <<7, 0>>), PortDecl("output", "c", <<7, 0>>)>> }

NetPool ==
  { NetDeclAssignment("e", <<7, 0>>,
      ExprNode(ParsedExpr(BinOp("+", Register("a"), Register("b")), <<"a", "b">>))),
    NetDeclAssignment("e", <<7, 0>>, NoNode),
    NetDeclAssignment("a", <<7, 0>>, ExprNode(ParsedExpr(Register("b"), <<"b">>))),
    NetDeclAssignment("e", <<>>, ExprNode(Null)),
    NetDeclAssignment("c", <<7, 0>>, ExprNode(ParsedExpr(Register("d"), <<"d">>))),
    NetDeclAssignment("d", <<7, 0>>, ExprNode(ParsedExpr(Register("d"), <<"d">>))) }

AssignPool ==
  { NetAssignment(Identifier("c"),
      ExprNode(ParsedExpr(BinOp("+", Register("a"), Register("b")), <<"a", "b">>))),
    NetAssignment(Identifier("d"),
      ExprNode(ParsedExpr(BinOp("&", Register("c"), Register("a")), <<"c", "a">>))),
    NetAssignment(Identifier("c"), ExprNode(ParsedExpr(Register("d"), <<"d">>))),
    NetAssignment(Identifier("e"), ExprNode(ParsedExpr(UnOp("~", Register("c")), <<"c">>))),
    NetAssignment(Identifier("c"), ExprNode(ParsedExpr(Register("z"), <<"z">>))),
    NetAssignment(Identifier("a"), ExprNode(ParsedExpr(Register("b"), <<"b">>))),
    NetAssignment(NoNode, ExprNode(ParsedExpr(Register("b"), <<"b">>))),
    NetAssignment(Identifier("d"), ExprNode(Null)) }

ModuleNodes ==
  {[errors |-> 0, ports |-> ps, nets |-> ns, assigns |-> as] :
     ps \in PortLists,
     ns \in UNION {[1..n -> NetPool] : n \in 0..MaxNets},
     as \in UNION {[1..n -> AssignPool] : n \in 0..MaxAssigns}}

\* trees the translator gives up on before it builds a Module
BrokenTrees ==
  {Null}
  \cup {[rootType |-> "ERROR", module |-> m] : m \in {n \in ModuleNodes : n.nets = <<>>}}
  \cup {[rootType |-> "source_file", module |-> NoNode]}
  \cup {[rootType |-> "source_file", module |-> [m EXCEPT !.errors = 1]] :
          m \in {n \in ModuleNodes : n.nets = <<>>}}

Trees == {[rootType |-> "source_file", module |-> m] : m \in ModuleNodes} \cup BrokenTrees

InitParse ==
  /\ pc = "parse"
  /\ tree \in Trees
  /\ mod = [inputs |-> <<>>, wires |-> <<>>, outputs |-> <<>>]
  /\ arg = <<>>
  /\ expr = Constant(<<"0">>)
  /\ env = EmptyEnv
  /\ ret = None
  /\ nodeByName = <<>>
  /\ indegree = EmptyEnv
  /\ revAdj = EmptyEnv
  /\ queue = <<>>
  /\ sorted = <<>>
  /\ idx = 0
  /\ inputs = EmptyEnv

\* lines 58-81: the conditions under which the translator returns null
GivesUp(t) ==
  \/ t = Null
  \/ t.rootType # "source_file"
  \/ t.module = NoNode
  \/ t.module.errors > 0

\* lines 57-200 up to the call of sortWires
ParseModule ==
  /\ pc = "parse"
  /\ IF GivesUp(tree)
     THEN /\ ret' = Null
          /\ pc' = "parsed"
          /\ UNCHANGED mod
     ELSE /\ mod' = Translate(tree.module)
          /\ pc' = "sortWires"
          /\ UNCHANGED ret
  /\ UNCHANGED <<tree, expr, env, arg, nodeByName, indegree, revAdj, queue, sorted,
                 idx, inputs>>

\* line 200: return sortWires(ret); an exception thrown by sortWires is not
\* caught, the call ends with it
ParseReturn ==
  /\ pc = "sorted"
  /\ ret' = [kind |-> "module", module |-> mod]
  /\ pc' = "parsed"
  /\ UNCHANGED <<tree, expr, env, mod, arg, nodeByName, indegree, revAdj, queue,
                 sorted, idx, inputs>>

NextParse ==
  \/ ParseModule
  \/ CallTopoSort
  \/ RegisterNode
  \/ BuildEdges
  \/ FillQueue
  \/ KahnStep
  \/ TopoReturn
  \/ SortWiresReturn
  \/ ParseReturn

SpecParse == InitParse /\ [][NextParse]_vars

-----------------------------------------------------------------------------
(* Claims about parseVerilogModule and the sort it ends with, checked under  *)
(* SpecParse                                                                 *)

\* the names a continuous assignment may define: the non-input ports and the
\* nets declared without a value
DeclaredNames(module) ==
  {module.ports[i].name : i \in {k \in 1..Len(module.ports) :
                                   module.ports[k].direction # "input"}}
  \cup {module.nets[i].name : i \in {k \in 1..Len(module.nets) :
                                       module.nets[k].expression = NoNode}}

\* the definitions of a module in document order, by name: the nets declared
\* with a value that parses, then the complete assignments to a declared name
\* whose value parses
DefinedNames(module) ==
  LET netDefs == SelectSeq(module.nets,
                   LAMBDA n : n.expression # NoNode /\ n.expression.parsed # Null)
      assignDefs == SelectSeq(module.assigns,
                      LAMBDA n : /\ n.lvalue # NoNode
                                 /\ n.expression # NoNode
                                 /\ n.expression.parsed # Null
                                 /\ n.lvalue.text \in DeclaredNames(module))
  IN [i \in 1..Len(netDefs) |-> netDefs[i].name]
     \o [i \in 1..Len(assignDefs) |-> assignDefs[i].lvalue.text]

\* C13: two wires sharing a name are fatal at scheduling time: the translator
\* keeps every definition, both copies of a duplicated name included; topoSort
\* then raises the duplicate-name error; a Module returned by sortWires or by
\* parseVerilogModule holds every definition once and no name twice.
C13_DuplicateNamesFatal ==
  /\ (pc # "parse" /\ ~GivesUp(tree)) =>
       NamesOf(IF pc = "sortWires" THEN mod.wires ELSE arg) = DefinedNames(tree.module)
  /\ (TopoEnded /\ ~UniqueNames(arg)) => (pc = "failed" /\ ret = DuplicateError)
  /\ pc = "topoSorted" => (UniqueNames(sorted) /\ Len(sorted) = Len(arg))
  /\ pc = "sorted" => (UniqueNames(mod.wires) /\ Len(mod.wires) = Len(arg))
  /\ (pc = "parsed" /\ ret # Null) =>
       /\ ret.kind = "module"
       /\ UniqueNames(ret.module.wires)
       /\ Len(ret.module.wires) = Len(DefinedNames(tree.module))
       /\ Range(NamesOf(ret.module.wires)) = Range(DefinedNames(tree.module))

\* a tree defining one name twice, rejected by topoSort
C13_Witness ==
  /\ pc = "failed"
  /\ ret = DuplicateError
  /\ ~GivesUp(tree)
  /\ Len(DefinedNames(tree.module)) >= 2
  /\ ~UniqueNames(arg)

\* C14: in every Module parseVerilogModule returns, no wire has the name of an
\* input: a net declaration or continuous assignment defining an input name
\* is warned about and left out of the returned wires.
C14_InputsDisjointFromWires ==
  (pc = "parsed" /\ ret # Null) =>
    /\ InputNames(ret.module) \cap Range(NamesOf(ret.module.wires)) = {}
    /\ InvalidAssignmentWarnings(ret.module) = {}

\* the conditions the sort step treats as fatal
SortFatal(m) ==
  \/ ~UniqueNames(m.wires)
  \/ ~Resolvable(m.wires, InputNames(m))
  \/ HasCycle(m.wires, InputNames(m))

ParseEnded == pc \in {"parsed", "failed"}

\* C16: every fatal condition of one parseVerilogModule call (unrecognized
\* root, no module declaration, an ERROR node in the module, and a cycle, an
\* unknown dependency or a duplicated wire name found by the sort) makes the
\* call return null, never a Module and never anything else.
C16_FatalYieldsNoModule ==
  (ParseEnded /\ (GivesUp(tree) \/ SortFatal(Translate(tree.module))))
    => (pc = "parsed" /\ ret = Null)

-----------------------------------------------------------------------------
(* Further claims about sortWires, topoSort and simulateCircuit, checked     *)
(* under Spec. mod is the one Module object of the run: the argument of      *)
(* sortWires, the object it returns and the argument of simulateCircuit.     *)

\* C15: sortWires does not mutate its argument: after a successful call, and
\* after a failed one, the Module passed in still has its original wires list
\* in its original order.
C15_SortWiresLeavesArgument ==
  pc \in {"sorted", "failed"} => mod.wires = arg

\* how often w occurs in the list ws
Count(ws, w) == Cardinality({i \in 1..Len(ws) : ws[i] = w})

\* out holds the wires of in, each as often as in does
IsPermutation(out, in) ==
  /\ Len(out) = Len(in)
  /\ \A w \in Range(in) \cup Range(out) : Count(out, w) = Count(in, w)

\* C18: whenever topoSort succeeds its output is a permutation of its input,
\* every wire emitted exactly once with its name, width, value and dep_list
\* unchanged; during the Kahn loop a wire is enqueued at most once and only
\* when its remaining in-degree is exactly zero.
C18_PermutationAndQueue ==
  /\ pc = "topoSorted" => (IsPermutation(sorted, arg) /\ UniqueNames(sorted))
  /\ pc = "sorted" => (IsPermutation(mod.wires, arg) /\ UniqueNames(mod.wires))
  /\ pc = "kahn" =>
       LET seen == NamesOf(sorted) \o queue IN
       /\ \A i, j \in 1..Len(seen) : seen[i] = seen[j] => i = j
       /\ \A i \in 1..Len(seen) : indegree[seen[i]] = 0
       /\ \A i \in 1..Len(sorted) : sorted[i] \in Range(arg)

\* in the Kahn loop, a wire with two dependencies on other wires is in the
\* queue after both were emitted
C18_Witness ==
  /\ pc = "kahn"
  /\ Len(sorted) >= 2
  /\ \E i \in 1..Len(queue) :
       NonInputCount(Get(nodeByName, queue[i]).dep_list, InputNames(mod)) >= 2

\* the first declared input that is not supplied with its declared width
FirstBadInput ==
  CHOOSE i \in 1..Len(mod.inputs) :
    /\ ~(/\ mod.inputs[i].name \in DOMAIN inputs
          /\ inputs[mod.inputs[i].name].width = mod.inputs[i].width)
    /\ \A j \in 1..(i - 1) :
         /\ mod.inputs[j].name \in DOMAIN inputs
         /\ inputs[mod.inputs[j].name].width = mod.inputs[j].width

\* C19: simulateCircuit validates the supplied inputs before it evaluates any
\* wire: a declared input that is missing, or supplied with another width
\* than declared, makes the call throw without evaluating a wire or returning
\* an Env; otherwise every declared input is bound to exactly the supplied
\* Value when the evaluation of the wires starts, and stays so unless a wire
\* of that name is evaluated.
C19_InputsValidatedFirst ==
  /\ (pc \in {"wires", "done", "simFailed"} /\ ~InputsSupplied) =>
       /\ pc = "simFailed"
       /\ ret = IF mod.inputs[FirstBadInput].name \notin DOMAIN inputs
                THEN Err("Missing input")
                ELSE Err("Input width mismatch")
       /\ env = EmptyEnv
  /\ (pc = "wires" /\ idx = 1) =>
       /\ DOMAIN env = InputNames(mod)
       /\ \A n \in InputNames(mod) : env[n] = inputs[n]
  /\ pc \in {"wires", "done"} =>
       \A n \in InputNames(mod) \ Range(NamesOf(mod.wires)) : env[n] = inputs[n]

\* a module with wires, rejected for an input supplied at the wrong width
C19_Witness ==
  /\ pc = "simFailed"
  /\ ret = Err("Input width mismatch")
  /\ Len(mod.wires) >= 1
  /\ "a" \in DOMAIN inputs
  /\ inputs["a"].width = 4
  /\ env = EmptyEnv

=============================================================================
